---- MODULE Spec2Model ----
(***************************************************************************)
(* insightOS AI copilot pipeline: the streaming route handler POST /api/ai *)
(* (validation with one repair pass, safe fallback, NDJSON framing), the   *)
(* client that consumes the stream (CopilotInput) and the conversation     *)
(* store (useCopilotStore).                                                *)
(*                                                                         *)
(* Text is a sequence of symbols.  The symbols of model output are the     *)
(* characters that matter to the code: "{", "}", whitespace (" ", "\n"),   *)
(* the three-backtick fence "fence", the tag "json", prose "x", and one        *)
(* symbol per object body (the text between the braces of a JSON object).  *)
(* A fixed phrase (a summary, an error notice) is a one-symbol text.       *)
(***************************************************************************)
EXTENDS Integers, Sequences, FiniteSets, TLC

VARIABLES
    messages,      \* store.messages: sequence of [id, role, content]
    isLoading,     \* store.isLoading
    lastResponse,  \* store.lastResponse: a response value or Null
    turns,         \* one record per accepted submission (client and server side)
    env,           \* process.env: [key, model] (present or absent)
    raw,           \* input of parseAndValidate under SpecParse
    presult,       \* what parseAndValidate returned for raw, or NotRun
    input,         \* what a unit specification applies its operation to
    output         \* what the operation has produced and changed so far

vars == <<messages, isLoading, lastResponse, turns, env, raw, presult, input, output>>

----------------------------------------------------------------------------
(* Bounds *)

MaxTurns == 2
MaxDeltas == 2
MaxLen == 2
MaxConf == 3
MaxBytes == 5
MaxDispatch == 2
MaxRows == 22

----------------------------------------------------------------------------
(* Text helpers (String.prototype) *)

IsWs(c) == c \in {" ", "\n"}

SetMin(S) == CHOOSE m \in S : \A n \in S : m <= n
SetMax(S) == CHOOSE m \in S : \A n \in S : m >= n

NonWsIdx(s) == {i \in 1..Len(s) : ~IsWs(s[i])}

TrimTo(s, idx) ==
    IF idx = {} THEN <<>> ELSE SubSeq(s, SetMin(idx), SetMax(idx))

trim(s) == TrimTo(s, NonWsIdx(s))

RECURSIVE Concat(_)
Concat(ss) == IF ss = <<>> THEN <<>> ELSE Head(ss) \o Concat(Tail(ss))

----------------------------------------------------------------------------
(* JSON values, tagged by type *)

JStr(s) == [t |-> "str", v |-> s]
JNum(n) == [t |-> "num", v |-> n]
JArr(a) == [t |-> "arr", v |-> a]
JObj(f) == [t |-> "obj", v |-> f]
Null == [t |-> "null"]
Undefined == [t |-> "undefined"]

\* confidenceScore is kept in tenths: Scale stands for 1.0
Scale == 10

Response(summary, insights, actions, warnings, conf) ==
    JObj([summary |-> summary, insights |-> JArr(insights),
          suggestedActions |-> JArr(actions), warnings |-> JArr(warnings),
          confidenceScore |-> conf])

Insight(sev) ==
    JObj([title |-> JStr(<<"T">>), description |-> JStr(<<"D">>), severity |-> JStr(<<sev>>)])

Action(type, payload) ==
    JObj([label |-> JStr(<<"L">>), actionType |-> JStr(<<type>>), payload |-> payload])

FilterPayload == JObj([filterValue |-> JStr(<<"active">>)])

FALLBACK_RESPONSE ==
    Response(JStr(<<"Unable to analyze dashboard data at this time.">>),
             <<>>, <<>>, <<JStr(<<"AI response validation failed.">>)>>, JNum(0))

----------------------------------------------------------------------------
(* Object bodies the model may write between braces, and the value each     *)
(* denotes.  A, B conform to the schema; the others each break one rule.    *)

ConformingBodies == {"A", "B"}
Bodies == {"A", "B", "C", "N", "T", "E", "M", "W", "S"}

BodyValue(b) ==
    CASE b = "A" -> Response(JStr(<<"S1">>), <<>>, <<>>, <<>>, JNum(Scale))
      [] b = "B" -> Response(JStr(<<"S2">>), <<Insight("high")>>,
                             <<Action("APPLY_FILTER", FilterPayload)>>,
                             <<JStr(<<"w">>)>>, JNum(0))
      [] b = "C" -> Response(JStr(<<"S1">>), <<>>, <<>>, <<>>, JNum(Scale + 1))
      [] b = "N" -> Response(JStr(<<"S1">>), <<>>, <<>>, <<>>, JNum(0 - 1))
      [] b = "T" -> Response(JStr(<<"S1">>), <<>>,
                             <<Action("DELETE_ALL", FilterPayload)>>, <<>>, JNum(Scale))
      [] b = "E" -> JObj([summary |-> JStr(<<"S1">>), insights |-> JArr(<<>>),
                          suggestedActions |-> JArr(<<>>), warnings |-> JArr(<<>>),
                          confidenceScore |-> JNum(Scale), extra |-> JNum(1)])
      [] b = "M" -> JObj([summary |-> JStr(<<"S1">>), insights |-> JArr(<<>>),
                          suggestedActions |-> JArr(<<>>),
                          confidenceScore |-> JNum(Scale)])
      [] b = "W" -> Response(JNum(1), <<>>, <<>>, <<>>, JNum(Scale))
      [] b = "S" -> Response(JStr(<<"S1">>), <<Insight("critical")>>, <<>>, <<>>, JNum(Scale))

\* JSON.stringify of a response value that has a body symbol
Stringify(b) == <<"{", b, "}">>

----------------------------------------------------------------------------
(* JSON.parse on model text: whitespace between tokens is insignificant;   *)
(* the text must be exactly one object.                                    *)

NoWs(s) == SelectSeq(s, LAMBDA c : ~IsWs(c))

JSONparse(s) ==
    LET t == NoWs(s) IN
    IF Len(t) = 3 /\ t[1] = "{" /\ t[3] = "}" /\ t[2] \in Bodies
    THEN [ok |-> TRUE, value |-> BodyValue(t[2])]
    ELSE IF Len(t) = 2 /\ t[1] = "{" /\ t[2] = "}"
    THEN [ok |-> TRUE, value |-> JObj([k \in {} |-> Null])]
    ELSE [ok |-> FALSE, value |-> Null]

----------------------------------------------------------------------------
(* lib/validators/copilot-schema.ts *)

ZString(v) == v.t = "str"

ZEnum(v, members) == v.t = "str" /\ v.v \in members

ZRecord(v) == v.t = "obj"

SeveritySchema(v) == ZEnum(v, {<<"low">>, <<"medium">>, <<"high">>})

\* variant: any string is taken as an action type
ActionTypeSchema_AnyString(v) == v.t = "str"

ActionTypeSchema(v) ==
    ZEnum(v, {<<"APPLY_FILTER">>, <<"EXPORT_REPORT">>, <<"HIGHLIGHT_METRIC">>})

InsightSchema(v) ==
    /\ v.t = "obj"
    /\ DOMAIN v.v = {"title", "description", "severity"}
    /\ ZString(v.v.title)
    /\ ZString(v.v.description)
    /\ SeveritySchema(v.v.severity)

SuggestedActionSchema(v) ==
    /\ v.t = "obj"
    /\ DOMAIN v.v = {"label", "actionType", "payload"}
    /\ ZString(v.v.label)
    /\ ActionTypeSchema(v.v.actionType)
    /\ ZRecord(v.v.payload)

InsightArray(v) == v.t = "arr" /\ \A i \in DOMAIN v.v : InsightSchema(v.v[i])

SuggestedActionArray(v) == v.t = "arr" /\ \A i \in DOMAIN v.v : SuggestedActionSchema(v.v[i])

StringArray(v) == v.t = "arr" /\ \A i \in DOMAIN v.v : ZString(v.v[i])

\* variant: confidenceScore has a lower bound only
CopilotResponseSchema_NoMax(v) ==
    /\ v.t = "obj"
    /\ DOMAIN v.v = {"summary", "insights", "suggestedActions", "warnings", "confidenceScore"}
    /\ ZString(v.v.summary)
    /\ InsightArray(v.v.insights)
    /\ SuggestedActionArray(v.v.suggestedActions)
    /\ StringArray(v.v.warnings)
    /\ v.v.confidenceScore.t = "num"
    /\ v.v.confidenceScore.v >= 0

CopilotResponseSchema(v) ==
    /\ v.t = "obj"
    /\ DOMAIN v.v = {"summary", "insights", "suggestedActions", "warnings", "confidenceScore"}
    /\ ZString(v.v.summary)
    /\ InsightArray(v.v.insights)
    /\ SuggestedActionArray(v.v.suggestedActions)
    /\ StringArray(v.v.warnings)
    /\ v.v.confidenceScore.t = "num"
    /\ v.v.confidenceScore.v >= 0
    /\ v.v.confidenceScore.v <= Scale

----------------------------------------------------------------------------
(* route.ts: extractJson *)

\* The fence pattern of extractJson (multi-line mode): the first fence at a
\* line start, the optional tag and the whitespace after it, then the shortest
\* capture that is followed by optional whitespace and a fence at a line end.
NoMatch == [matched |-> FALSE, g1 |-> <<>>]

FenceStarts(s) == {i \in 1..Len(s) : s[i] = "fence" /\ (i = 1 \/ s[i - 1] = "\n")}

\* position after the opening fence at i and its optional tag
TagEnd(s, i) == IF i + 1 <= Len(s) /\ s[i + 1] = "json" THEN i + 2 ELSE i + 1

\* position of the first symbol after the whitespace that starts at p
ContentStart(s, p) ==
    IF \A n \in p..Len(s) : IsWs(s[n]) THEN Len(s) + 1
    ELSE SetMin({n \in p..Len(s) : ~IsWs(s[n])})

\* fences at a line end, from s0 on
Closers(s, s0) ==
    {k \in s0..Len(s) : s[k] = "fence" /\ (k = Len(s) \/ s[k + 1] = "\n")}

\* where the shortest capture ends: only whitespace lies between it and the closer
CaptureEnd(s, s0, k) == SetMin({n \in s0..k : \A m \in n..(k - 1) : IsWs(s[m])})

FenceCapture(s, s0, closers) ==
    IF closers = {} THEN NoMatch
    ELSE [matched |-> TRUE, g1 |-> SubSeq(s, s0, CaptureEnd(s, s0, SetMin(closers)) - 1)]

FenceFrom(s, s0) == FenceCapture(s, s0, Closers(s, s0))

FenceMatch(s) ==
    IF FenceStarts(s) = {} THEN NoMatch
    ELSE FenceFrom(s, ContentStart(s, TagEnd(s, SetMin(FenceStarts(s)))))

indexOf(s, c) ==
    IF \E i \in 1..Len(s) : s[i] = c
    THEN SetMin({i \in 1..Len(s) : s[i] = c}) ELSE 0 - 1

lastIndexOf(s, c) ==
    IF \E i \in 1..Len(s) : s[i] = c
    THEN SetMax({i \in 1..Len(s) : s[i] = c}) ELSE 0 - 1

\* if(fenceMatch?.[1]) trimmed = fenceMatch[1].trim()
StripFence(trimmed, fenceMatch) ==
    IF fenceMatch.matched /\ fenceMatch.g1 # <<>> THEN trim(fenceMatch.g1) ELSE trimmed

\* the outermost { ... } block
SliceBraces(trimmed, firstBrace, lastBrace) ==
    IF firstBrace # 0 - 1 /\ lastBrace > firstBrace
    THEN SubSeq(trimmed, firstBrace, lastBrace)
    ELSE trimmed

OutermostBlock(trimmed) ==
    SliceBraces(trimmed, indexOf(trimmed, "{"), lastIndexOf(trimmed, "}"))

Unfenced(trimmed) == StripFence(trimmed, FenceMatch(trimmed))

\* variant: the repair only trims the text
extractJson_TrimOnly(text) == trim(text)

extractJson(text) == OutermostBlock(Unfenced(trim(text)))

----------------------------------------------------------------------------
(* route.ts: parseAndValidate.  The record also tells which attempt        *)
(* produced the result: repairRan is TRUE iff extractJson was executed.    *)

\* safeParse of a parse result; a parse that threw validates nothing
Validated(parsed, repairRan) ==
    IF parsed.ok /\ CopilotResponseSchema(parsed.value)
    THEN [result |-> parsed.value, repairRan |-> repairRan]
    ELSE [result |-> Null, repairRan |-> repairRan]

\* attempt 2: repair, re-parse, validate
Repair(text) == Validated(JSONparse(extractJson(text)), TRUE)

\* attempt 1: the direct parse, and attempt 2 when it fails
DirectOrRepair(direct, text) ==
    IF direct.result # Null THEN direct ELSE Repair(text)

\* variant: the repair pass runs before any direct parse
parseAndValidateRun_RepairFirst(text) == Repair(text)

parseAndValidateRun(text) == DirectOrRepair(Validated(JSONparse(text), FALSE), text)

parseAndValidate(text) == parseAndValidateRun(text).result

----------------------------------------------------------------------------
(* The store's initial state (store.ts) and idle values of the variables   *)

NotRun == [result |-> Null, repairRan |-> FALSE, ran |-> FALSE]

\* input and output outside the unit specifications
Idle == [op |-> "none"]

Ran(run) == [result |-> run.result, repairRan |-> run.repairRan, ran |-> TRUE]

initialState == [messages |-> <<>>, isLoading |-> FALSE, lastResponse |-> Null]

----------------------------------------------------------------------------
(* Stream events and their NDJSON encoding (route.ts: StreamEvent,         *)
(* encodeLine).  On the wire a line is the JSON text of the event, kept    *)
(* as one symbol, followed by the newline symbol.                          *)

Token(c) == [type |-> "token", content |-> c, payload |-> Null]
Done(p) == [type |-> "done", content |-> <<>>, payload |-> p]
NoEvent == [type |-> "none", content |-> <<>>, payload |-> Null]
\* the object {"type":"done"}: valid JSON, not a StreamEvent (no payload)
DoneWithoutPayload == [type |-> "done", content |-> <<>>, payload |-> Undefined]

NL == [k |-> "nl", ev |-> NoEvent]
JsonText(ev) == [k |-> "json", ev |-> ev]

\* other bytes a response may hold: a blank, and the JSON text of an event cut
\* in two, for a transport that ends a chunk inside a line
SP == [k |-> "sp", ev |-> NoEvent]
FirstHalf(ev) == [k |-> "head", ev |-> ev]
SecondHalf(ev) == [k |-> "tail", ev |-> ev]

encodeLine(event) == <<JsonText(event), NL>>

----------------------------------------------------------------------------
(* store.ts and the store helpers of CopilotInput.tsx *)

Message(id, role, content) == [id |-> id, role |-> role, content |-> content]

addMessage(msgs, message) == Append(msgs, message)

updateMessageContent(msgs, id, content) ==
    [i \in DOMAIN msgs |->
        IF msgs[i].id = id THEN [msgs[i] EXCEPT !.content = content] ELSE msgs[i]]

SomethingWentWrong == <<"Something went wrong.">>

----------------------------------------------------------------------------
(* CopilotInput.tsx: tryParseStreamEvent and the body of consumeStream's   *)
(* read loop                                                               *)

IsWireWs(c) == c.k = "sp"

WireTrim(line) ==
    LET idx == {i \in 1..Len(line) : ~IsWireWs(line[i])} IN
    IF idx = {} THEN <<>> ELSE SubSeq(line, SetMin(idx), SetMax(idx))

\* JSON.parse succeeds on the complete JSON text of an event, in one piece or
\* as its two halves in order, and throws on anything else
tryParseStreamEvent(line) ==
    LET trimmed == WireTrim(line) IN
    IF trimmed = <<>> THEN NoEvent
    ELSE IF Len(trimmed) = 1 /\ trimmed[1].k = "json" THEN trimmed[1].ev
    ELSE IF /\ Len(trimmed) = 2
            /\ trimmed[1].k = "head"
            /\ trimmed[2].k = "tail"
            /\ trimmed[1].ev = trimmed[2].ev
    THEN trimmed[1].ev
    ELSE NoEvent

\* buffer.split("\n"): every segment, the last one being the unterminated rest
RECURSIVE SplitLines(_)
SplitLines(buffer) ==
    LET nls == {i \in 1..Len(buffer) : buffer[i].k = "nl"} IN
    IF nls = {} THEN <<buffer>>
    ELSE LET i == SetMin(nls)
         IN <<SubSeq(buffer, 1, i - 1)>> \o SplitLines(SubSeq(buffer, i + 1, Len(buffer)))

\* variant: a token replaces the streamed text instead of extending it
ApplyEvent_Overwrite(st, messageId, event) ==
    IF event.type = "token"
    THEN [st EXCEPT !.accumulated = event.content,
                    !.messages = updateMessageContent(st.messages, messageId, event.content),
                    !.applied = Append(st.applied, event)]
    ELSE IF event.type = "done" /\ event.payload = Undefined
    THEN [st EXCEPT !.thrown = TRUE]
    ELSE IF event.type = "done"
    THEN [st EXCEPT !.messages =
                       updateMessageContent(st.messages, messageId,
                                            event.payload.v.summary.v),
                    !.lastResponse = event.payload,
                    !.applied = Append(st.applied, event)]
    ELSE st

\* variant: the done event caches the response but leaves the streamed text
ApplyEvent_KeepsTokens(st, messageId, event) ==
    IF event.type = "token"
    THEN LET acc == st.accumulated \o event.content IN
         [st EXCEPT !.accumulated = acc,
                    !.messages = updateMessageContent(st.messages, messageId, acc),
                    !.applied = Append(st.applied, event)]
    ELSE IF event.type = "done" /\ event.payload = Undefined
    THEN [st EXCEPT !.thrown = TRUE]
    ELSE IF event.type = "done"
    THEN [st EXCEPT !.lastResponse = event.payload,
                    !.applied = Append(st.applied, event)]
    ELSE st

\* One event applied to the conversation: st = [accumulated, messages,
\* lastResponse, applied, thrown]; applied is the history of events applied so
\* far.  Reading payload.summary of an event without payload throws a
\* TypeError, which leaves the loop.
ApplyEvent(st, messageId, event) ==
    IF event.type = "token"
    THEN LET acc == st.accumulated \o event.content IN
         [st EXCEPT !.accumulated = acc,
                    !.messages = updateMessageContent(st.messages, messageId, acc),
                    !.applied = Append(st.applied, event)]
    ELSE IF event.type = "done" /\ event.payload = Undefined
    THEN [st EXCEPT !.thrown = TRUE]
    ELSE IF event.type = "done"
    THEN [st EXCEPT !.messages =
                       updateMessageContent(st.messages, messageId,
                                            event.payload.v.summary.v),
                    !.lastResponse = event.payload,
                    !.applied = Append(st.applied, event)]
    ELSE st

RECURSIVE ApplyLines(_, _, _)
ApplyLines(st, messageId, lines) ==
    IF lines = <<>> \/ st.thrown THEN st
    ELSE ApplyLines(ApplyEvent(st, messageId, tryParseStreamEvent(Head(lines))),
                    messageId, Tail(lines))

----------------------------------------------------------------------------
(* Inputs of the session *)

\* what the user may have typed when submitting
InputValues == {<<>>, <<" ">>, <<" ", "q", " ">>}

\* content deltas the provider may stream
ProviderDeltas == {<<"{", "A", "}">>, <<"{", "T", "}">>, <<"x">>}

NewTurn(messageId, query) ==
    [messageId |-> messageId, query |-> query,
     pc |-> "fetching", exit |-> "none",
     srv |-> "pending", status |-> 0, body |-> Null, srvResult |-> "none",
     fullContent |-> <<>>, nDeltas |-> 0, emitted |-> <<>>,
     wire |-> <<>>, buffer |-> <<>>, accumulated |-> <<>>, applied |-> <<>>]

Init ==
    /\ messages = initialState.messages
    /\ isLoading = initialState.isLoading
    /\ lastResponse = initialState.lastResponse
    /\ turns = <<>>
    /\ env \in [key : BOOLEAN, model : BOOLEAN]
    /\ raw = <<>>
    /\ presult = NotRun
    /\ input = Idle
    /\ output = Idle

----------------------------------------------------------------------------
(* Client: CopilotInput.tsx handleSubmit + submitQuery up to the fetch,    *)
(* and the panel's clear button                                            *)

\* variant: a submission is accepted while another is in flight
handleSubmit_IgnoresLoading(value) ==
    LET trimmed == trim(value)
        userId == 2 * Len(turns) + 1
        messageId == 2 * Len(turns) + 2
    IN
    /\ Len(turns) < MaxTurns
    /\ IF Len(trimmed) = 0
       THEN UNCHANGED <<messages, isLoading, turns>>
       ELSE /\ messages' = addMessage(addMessage(messages, Message(userId, "user", trimmed)),
                                      Message(messageId, "assistant", <<>>))
            /\ isLoading' = TRUE
            /\ turns' = Append(turns, NewTurn(messageId, trimmed))
    /\ UNCHANGED <<lastResponse, env, raw, presult, input, output>>

handleSubmit(value) ==
    LET trimmed == trim(value)
        userId == 2 * Len(turns) + 1
        messageId == 2 * Len(turns) + 2
    IN
    /\ Len(turns) < MaxTurns
    /\ IF Len(trimmed) = 0 \/ isLoading
       THEN UNCHANGED <<messages, isLoading, turns>>
       ELSE /\ messages' = addMessage(addMessage(messages, Message(userId, "user", trimmed)),
                                      Message(messageId, "assistant", <<>>))
            /\ isLoading' = TRUE
            /\ turns' = Append(turns, NewTurn(messageId, trimmed))
    /\ UNCHANGED <<lastResponse, env, raw, presult, input, output>>

\* variant: the reset forgets the cached response
clearSession_KeepsResponse ==
    /\ messages # <<>>
    /\ messages' = initialState.messages
    /\ isLoading' = initialState.isLoading
    /\ UNCHANGED <<lastResponse, turns, env, raw, presult, input, output>>

clearSession ==
    /\ messages # <<>>
    /\ messages' = initialState.messages
    /\ isLoading' = initialState.isLoading
    /\ lastResponse' = initialState.lastResponse
    /\ UNCHANGED <<turns, env, raw, presult, input, output>>

----------------------------------------------------------------------------
(* Server: route.ts POST *)

\* RequestBodySchema: an object with a string query of at least one
\* character and a context that is a record; other keys are ignored
RequestBodySchema(v) ==
    /\ v.t = "obj"
    /\ "query" \in DOMAIN v.v
    /\ v.v.query.t = "str"
    /\ Len(v.v.query.v) >= 1
    /\ "context" \in DOMAIN v.v
    /\ v.v.context.t = "obj"

ErrorBody(text) == JObj([error |-> JStr(<<text>>)])

ErrorBodyWithDetails(text) ==
    JObj([error |-> JStr(<<text>>), details |-> JArr(<<JStr(<<"issue">>)>>)])

\* NextResponse.json(body, {status}) returned before any provider call
Reject(status, body, why) ==
    [status |-> status, body |-> body, called |-> FALSE, why |-> why]

\* variant: every provider failure is reported as the generic upstream failure
AfterCall_NoRateLimit(outcome) ==
    IF outcome = "stream"
    THEN [status |-> 200, body |-> Null, called |-> TRUE, why |-> "none"]
    ELSE [status |-> IF outcome \in {"rate", "api"} THEN 502 ELSE 500,
          body |-> FALLBACK_RESPONSE, called |-> TRUE, why |-> outcome]

\* what the provider call led to: the streaming response or the pre-stream catch
AfterCall(outcome) ==
    IF outcome = "stream"
    THEN [status |-> 200, body |-> Null, called |-> TRUE, why |-> "none"]
    ELSE [status |-> IF outcome = "rate" THEN 429
                     ELSE IF outcome = "api" THEN 502 ELSE 500,
          body |-> FALLBACK_RESPONSE, called |-> TRUE, why |-> outcome]

\* variant: the provider is called whatever the environment holds
Respond_NoEnvCheck(environment, request, outcome) ==
    IF ~request.parseable
    THEN Reject(400, ErrorBody("Request body must be valid JSON"), "badRequest")
    ELSE IF ~RequestBodySchema(request.value)
    THEN Reject(400, ErrorBodyWithDetails("Invalid request body"), "badRequest")
    ELSE AfterCall(outcome)

\* steps 1-3 and 6 of POST: environment check, body validation, then the
\* provider call, which yields a stream or fails with a rate limit, another
\* API error or an error that is not an API error
Respond(environment, request, outcome) ==
    IF ~environment.key THEN Reject(503, FALLBACK_RESPONSE, "config")
    ELSE IF ~environment.model THEN Reject(503, FALLBACK_RESPONSE, "config")
    ELSE IF ~request.parseable
    THEN Reject(400, ErrorBody("Request body must be valid JSON"), "badRequest")
    ELSE IF ~RequestBodySchema(request.value)
    THEN Reject(400, ErrorBodyWithDetails("Invalid request body"), "badRequest")
    ELSE AfterCall(outcome)

ProviderOutcomes == {"stream", "rate", "api", "unknown"}

\* the body submitQuery sends: JSON.stringify({query, context: {...builtContext}})
ClientRequest(query) ==
    [parseable |-> TRUE,
     value |-> JObj([query |-> JStr(query),
                     context |-> JObj([currentPage |-> JStr(<<"dashboard">>)])])]

\* the response reaches the turn: a stream to write to, or a closed response
Responded(turn, reply) ==
    [turn EXCEPT !.srv = IF reply.status = 200 THEN "streaming" ELSE "closed",
                 !.status = reply.status,
                 !.body = reply.body,
                 !.srvResult = reply.why]

POST(t) ==
    /\ turns[t].srv = "pending"
    /\ \E outcome \in ProviderOutcomes :
         turns' = [turns EXCEPT ![t] =
                     Responded(@, Respond(env, ClientRequest(@.query), outcome))]
    /\ UNCHANGED <<messages, isLoading, lastResponse, env, raw, presult, input, output>>

\* step 4b: one provider chunk; a chunk without content changes nothing
StreamChunk(t) ==
    /\ turns[t].srv = "streaming"
    /\ turns[t].nDeltas < MaxDeltas
    /\ \E delta \in ProviderDeltas \cup {<<>>} :
         turns' = [turns EXCEPT ![t] =
           IF delta = <<>> THEN @
           ELSE [@ EXCEPT !.fullContent = @ \o delta,
                          !.nDeltas = @ + 1,
                          !.emitted = Append(@, Token(delta)),
                          !.wire = @ \o encodeLine(Token(delta))]]
    /\ UNCHANGED <<messages, isLoading, lastResponse, env, raw, presult, input, output>>

\* the terminal event is enqueued and the stream closed
Close(turn, payload, how) ==
    [turn EXCEPT !.emitted = Append(@, Done(payload)),
                 !.wire = @ \o encodeLine(Done(payload)),
                 !.srv = "closed",
                 !.srvResult = how]

\* variant: text that fails validation is forwarded as the summary
EndOfStream_ForwardsRaw(turn, validated) ==
    IF validated # Null THEN Close(turn, validated, "validated")
    ELSE Close(turn, Response(JStr(turn.fullContent), <<>>, <<>>, <<>>, JNum(0)),
               IF turn.fullContent = <<>> THEN "empty" ELSE "invalid")

EndOfStream(turn, validated) ==
    IF turn.fullContent = <<>> THEN Close(turn, FALLBACK_RESPONSE, "empty")
    ELSE IF validated # Null THEN Close(turn, validated, "validated")
    ELSE Close(turn, FALLBACK_RESPONSE, "invalid")

\* step 5: the provider stream ended
StreamEnd(t) ==
    /\ turns[t].srv = "streaming"
    /\ turns' = [turns EXCEPT ![t] = EndOfStream(@, parseAndValidate(@.fullContent))]
    /\ UNCHANGED <<messages, isLoading, lastResponse, env, raw, presult, input, output>>

\* variant: the catch closes the stream without a terminal event
StreamError_NoDone(t) ==
    /\ turns[t].srv = "streaming"
    /\ turns' = [turns EXCEPT ![t] = [@ EXCEPT !.srv = "closed", !.srvResult = "error"]]
    /\ UNCHANGED <<messages, isLoading, lastResponse, env, raw, presult, input, output>>

\* variant: the catch validates what had arrived before the error
StreamError_Validates(t) ==
    /\ turns[t].srv = "streaming"
    /\ turns' = [turns EXCEPT ![t] =
                   [EndOfStream(@, parseAndValidate(@.fullContent))
                       EXCEPT !.srvResult = "error"]]
    /\ UNCHANGED <<messages, isLoading, lastResponse, env, raw, presult, input, output>>

\* the catch around the iteration: the provider stream raised
StreamError(t) ==
    /\ turns[t].srv = "streaming"
    /\ turns' = [turns EXCEPT ![t] = Close(@, FALLBACK_RESPONSE, "error")]
    /\ UNCHANGED <<messages, isLoading, lastResponse, env, raw, presult, input, output>>

----------------------------------------------------------------------------
(* Client: submitQuery after the fetch, consumeStream *)

\* submitQuery returned: the response, its reader and the locals of
\* consumeStream are released; a response the client left before the server
\* closed it is aborted, and the server writes no more to it
Release(turn, why) ==
    [turn EXCEPT !.pc = "done", !.exit = why,
                 !.srv = IF @ = "closed" THEN "closed" ELSE "aborted",
                 !.fullContent = <<>>, !.nDeltas = 0, !.emitted = <<>>,
                 !.wire = <<>>, !.buffer = <<>>, !.accumulated = <<>>]

\* variant: the catch without the finally
FailTurn_NoFinally(t, why) ==
    /\ messages' = updateMessageContent(messages, turns[t].messageId, SomethingWentWrong)
    /\ turns' = [turns EXCEPT ![t] = Release(@, why)]
    /\ UNCHANGED <<isLoading, lastResponse, env, raw, presult, input, output>>

\* catch + finally of submitQuery
FailTurn(t, why) ==
    /\ messages' = updateMessageContent(messages, turns[t].messageId, SomethingWentWrong)
    /\ isLoading' = FALSE
    /\ turns' = [turns EXCEPT ![t] = Release(@, why)]
    /\ UNCHANGED <<lastResponse, env, raw, presult, input, output>>

\* the fetch resolved: a response that is not ok ends the turn
FetchResolve(t) ==
    /\ turns[t].pc = "fetching"
    /\ turns[t].status # 0
    /\ IF turns[t].status # 200
       THEN FailTurn(t, "notOk")
       ELSE /\ turns' = [turns EXCEPT ![t] = [@ EXCEPT !.pc = "reading"]]
            /\ UNCHANGED <<messages, isLoading, lastResponse, env, raw, presult, input, output>>

\* the fetch rejected (network failure)
FetchReject(t) ==
    /\ turns[t].pc = "fetching"
    /\ FailTurn(t, "fetchError")

\* the state the read loop works on, and what one pass over the complete lines
\* of the buffer makes of it
LoopState(turn) ==
    [accumulated |-> turn.accumulated, messages |-> messages,
     lastResponse |-> lastResponse, applied |-> turn.applied, thrown |-> FALSE]

\* variant: the last segment is parsed as well as retained
ProcessLines_ParsesRest(turn, lines) ==
    [st |-> ApplyLines(LoopState(turn), turn.messageId, lines),
     rest |-> lines[Len(lines)]]

ProcessLines(turn, lines) ==
    [st |-> ApplyLines(LoopState(turn), turn.messageId, SubSeq(lines, 1, Len(lines) - 1)),
     rest |-> lines[Len(lines)]]

AfterRead(turn, n, done) ==
    [turn EXCEPT !.wire = SubSeq(@, n + 1, Len(@)),
                 !.buffer = done.rest,
                 !.accumulated = done.st.accumulated,
                 !.applied = done.st.applied]

ReadResult(turn, n) ==
    ProcessLines(turn, SplitLines(turn.buffer \o SubSeq(turn.wire, 1, n)))

\* catch of submitQuery for an exception thrown inside the read loop
Caught(st, messageId) ==
    IF st.thrown
    THEN [st EXCEPT !.messages = updateMessageContent(@, messageId, SomethingWentWrong)]
    ELSE st

\* the store after the chunk; an exception while applying an event ends the
\* turn through catch and finally
Deliver(t, n, done) ==
    /\ messages' = Caught(done.st, turns[t].messageId).messages
    /\ lastResponse' = done.st.lastResponse
    /\ isLoading' = IF done.st.thrown THEN FALSE ELSE isLoading
    /\ turns' = [turns EXCEPT ![t] =
                    IF done.st.thrown
                    THEN Release([@ EXCEPT !.applied = done.st.applied], "applyError")
                    ELSE AfterRead(@, n, done)]

\* reader.read() returned a chunk: any non-empty prefix of what is in flight
ReadChunk(t) ==
    /\ turns[t].pc = "reading"
    /\ \E n \in 1..Len(turns[t].wire) : Deliver(t, n, ReadResult(turns[t], n))
    /\ UNCHANGED <<env, raw, presult, input, output>>

\* reader.read() returned done: the loop ends, then finally
ReadDone(t) ==
    /\ turns[t].pc = "reading"
    /\ turns[t].wire = <<>>
    /\ turns[t].srv = "closed"
    /\ isLoading' = FALSE
    /\ turns' = [turns EXCEPT ![t] = Release(@, "eof")]
    /\ UNCHANGED <<messages, lastResponse, env, raw, presult, input, output>>

\* reader.read() rejected (the connection broke)
ReadError(t) ==
    /\ turns[t].pc = "reading"
    /\ FailTurn(t, "readError")

Next ==
    \/ \E value \in InputValues : handleSubmit(value)
    \/ clearSession
    \/ \E t \in DOMAIN turns : POST(t)
    \/ \E t \in DOMAIN turns : StreamChunk(t)
    \/ \E t \in DOMAIN turns : StreamEnd(t)
    \/ \E t \in DOMAIN turns : StreamError(t)
    \/ \E t \in DOMAIN turns : FetchResolve(t)
    \/ \E t \in DOMAIN turns : FetchReject(t)
    \/ \E t \in DOMAIN turns : ReadChunk(t)
    \/ \E t \in DOMAIN turns : ReadDone(t)
    \/ \E t \in DOMAIN turns : ReadError(t)

Spec == Init /\ [][Next]_vars

----------------------------------------------------------------------------
(* SpecParse: parseAndValidate applied to every text of a bounded set.     *)
(* A text is an object (or nothing) between a prefix and a suffix of at    *)
(* most MaxLen symbols of commentary, fences, braces and newlines.         *)

WrapAlphabet == {"fence", "json", "\n", "x", "{", "}"}

RECURSIVE SeqsUpTo(_, _)
SeqsUpTo(A, n) ==
    IF n = 0 THEN {<<>>}
    ELSE LET shorter == SeqsUpTo(A, n - 1)
         IN shorter \cup {Append(q, a) : q \in shorter, a \in A}

Wraps == SeqsUpTo(WrapAlphabet, MaxLen)

Cores == {<<>>, <<"{", "}">>} \cup {Stringify(b) : b \in Bodies}

ParseInputs == {pre \o mid \o post : pre \in Wraps, mid \in Cores, post \in Wraps}

InitParse ==
    /\ raw \in ParseInputs
    /\ presult = NotRun
    /\ messages = initialState.messages
    /\ isLoading = initialState.isLoading
    /\ lastResponse = initialState.lastResponse
    /\ turns = <<>>
    /\ env = [key |-> TRUE, model |-> TRUE]
    /\ input = Idle
    /\ output = Idle

RunParse ==
    /\ ~presult.ran
    /\ presult' = Ran(parseAndValidateRun(raw))
    /\ UNCHANGED <<raw, messages, isLoading, lastResponse, turns, env, input, output>>

NextParse == RunParse

SpecParse == InitParse /\ [][NextParse]_vars

----------------------------------------------------------------------------
(* The unit specifications leave the session and the parse variables idle  *)

sessionVars == <<messages, isLoading, lastResponse, turns, env, raw, presult>>

SessionIdle ==
    /\ messages = initialState.messages
    /\ isLoading = initialState.isLoading
    /\ lastResponse = initialState.lastResponse
    /\ turns = <<>>
    /\ env = [key |-> TRUE, model |-> TRUE]
    /\ raw = <<>>
    /\ presult = NotRun

----------------------------------------------------------------------------
(* SpecSchema: CopilotResponseSchema.safeParse applied to candidate         *)
(* responses whose fields each conform or break one rule, with every       *)
(* confidenceScore from MaxConf tenths below 0.0 to MaxConf tenths above   *)
(* 1.0.                                                                    *)

ConfScores == (0 - MaxConf)..(Scale + MaxConf)

Candidates ==
    {Response(summary, insights, actions, warnings, JNum(conf)) :
        summary \in {JStr(<<"S1">>), JNum(1)},
        insights \in {<<>>, <<Insight("high")>>, <<Insight("critical")>>},
        actions \in {<<>>, <<Action("APPLY_FILTER", FilterPayload)>>,
                     <<Action("DELETE_ALL", FilterPayload)>>},
        warnings \in {<<>>, <<JStr(<<"w">>)>>},
        conf \in ConfScores}

InitSchema ==
    /\ SessionIdle
    /\ input \in {[op |-> "safeParse", value |-> c] : c \in Candidates}
    /\ output = Idle

safeParse ==
    /\ output = Idle
    /\ output' = [op |-> "safeParse", success |-> CopilotResponseSchema(input.value)]
    /\ UNCHANGED <<sessionVars, input>>

NextSchema == safeParse

SpecSchema == InitSchema /\ [][NextSchema]_vars

----------------------------------------------------------------------------
(* SpecRoute: POST /api/ai up to its response, applied to every request of *)
(* a bounded set under every environment.                                  *)

Absent == [t |-> "absent"]

\* the object with the given query and context, each possibly absent
BodyOf(query, context) ==
    JObj([k \in {f \in {"query", "context"} :
                   (IF f = "query" THEN query ELSE context) # Absent}
             |-> IF k = "query" THEN query ELSE context])

QueryValues == {Absent, JStr(<<>>), JStr(<<" ">>), JStr(<<"q">>), JNum(5)}

ContextValues ==
    {Absent, JObj([k \in {} |-> Null]), JObj([currentPage |-> JStr(<<"dashboard">>)]),
     JArr(<<>>), JStr(<<"c">>)}

Requests ==
    {[parseable |-> FALSE, value |-> Null]}
    \cup {[parseable |-> TRUE, value |-> v] : v \in {Null, JNum(1), JArr(<<>>)}}
    \cup {[parseable |-> TRUE, value |-> BodyOf(q, c)] : q \in QueryValues, c \in ContextValues}

InitRoute ==
    /\ messages = initialState.messages
    /\ isLoading = initialState.isLoading
    /\ lastResponse = initialState.lastResponse
    /\ turns = <<>>
    /\ raw = <<>>
    /\ presult = NotRun
    /\ env \in [key : BOOLEAN, model : BOOLEAN]
    /\ input \in {[op |-> "POST", request |-> r] : r \in Requests}
    /\ output = Idle

POSTRequest ==
    /\ output = Idle
    /\ \E outcome \in ProviderOutcomes :
         output' = [op |-> "POST", reply |-> Respond(env, input.request, outcome)]
    /\ UNCHANGED <<sessionVars, input>>

NextRoute == POSTRequest

SpecRoute == InitRoute /\ [][NextRoute]_vars

----------------------------------------------------------------------------
(* SpecFrame: consumeStream reading one response whose bytes are any       *)
(* sequence of at most MaxBytes symbols, delivered in chunks cut anywhere. *)

FrameAlphabet ==
    {NL, SP, FirstHalf(Token(<<"x">>)), SecondHalf(Token(<<"x">>)),
     JsonText(Done(BodyValue("A"))), JsonText(DoneWithoutPayload)}

FrameInputs == SeqsUpTo(FrameAlphabet, MaxBytes)

FrameMessages == <<Message(1, "user", <<"q">>), Message(2, "assistant", <<>>)>>

\* the turn when consumeStream is entered with a response of the given bytes
FrameTurn(bytes) ==
    [NewTurn(2, <<"q">>) EXCEPT !.pc = "reading", !.srv = "closed",
                                !.status = 200, !.wire = bytes]

InitFrame ==
    /\ input \in {[op |-> "consumeStream", bytes |-> b] : b \in FrameInputs}
    /\ output = Idle
    /\ messages = FrameMessages
    /\ isLoading = TRUE
    /\ lastResponse = initialState.lastResponse
    /\ turns = <<FrameTurn(input.bytes)>>
    /\ env = [key |-> TRUE, model |-> TRUE]
    /\ raw = <<>>
    /\ presult = NotRun

NextFrame ==
    \/ \E t \in DOMAIN turns : ReadChunk(t)
    \/ \E t \in DOMAIN turns : ReadDone(t)

SpecFrame == InitFrame /\ [][NextFrame]_vars

----------------------------------------------------------------------------
(* SpecLive: one submission followed to its end, or one response of at     *)
(* most MaxLiveBytes arbitrary bytes being read, under the scheduling the  *)
(* runtime gives: a pending request is answered, the provider stream ends  *)
(* (normally or by raising), a settled fetch resumes submitQuery, and a    *)
(* pending reader.read() resolves once bytes or the end of the stream are  *)
(* there.  Failures (a rejected fetch, a broken connection) may happen but *)
(* are not owed by anyone, so they carry no fairness.                      *)

MaxLiveTurns == 1
MaxLiveBytes == 2

InitLive == Init \/ (InitFrame /\ Len(input.bytes) <= MaxLiveBytes)

NextLive ==
    \/ \E value \in InputValues : Len(turns) < MaxLiveTurns /\ handleSubmit(value)
    \/ clearSession
    \/ \E t \in DOMAIN turns : POST(t)
    \/ \E t \in DOMAIN turns : StreamChunk(t)
    \/ \E t \in DOMAIN turns : StreamEnd(t)
    \/ \E t \in DOMAIN turns : StreamError(t)
    \/ \E t \in DOMAIN turns : FetchResolve(t)
    \/ \E t \in DOMAIN turns : FetchReject(t)
    \/ \E t \in DOMAIN turns : ReadChunk(t)
    \/ \E t \in DOMAIN turns : ReadDone(t)
    \/ \E t \in DOMAIN turns : ReadError(t)

Started(t) == t \in DOMAIN turns

\* reader.read() has bytes to return
ReadChunkEnabled(t) ==
    Started(t) /\ turns[t].pc = "reading" /\ turns[t].wire # <<>>

\* weak fairness of ReadChunk(t), its enabling condition written out
ReadChunkFair(t) ==
    []<>(~ReadChunkEnabled(t)) \/ []<><<Started(t) /\ ReadChunk(t)>>_vars

Fairness(t) ==
    /\ WF_vars(Started(t) /\ POST(t))
    /\ WF_vars(Started(t) /\ (StreamError(t) \/ StreamEnd(t)))
    /\ WF_vars(Started(t) /\ FetchResolve(t))
    /\ WF_vars(Started(t) /\ ReadDone(t))
    /\ ReadChunkFair(t)

SpecLive == InitLive /\ [][NextLive]_vars /\ \A t \in 1..MaxLiveTurns : Fairness(t)

----------------------------------------------------------------------------
(* action-dispatcher.ts.  A dispatch yields the result record and the      *)
(* control calls it made, in order; error is the empty text when the       *)
(* result has no error.                                                    *)


extractString(payload, key) ==
    IF key \in DOMAIN payload.v /\ payload.v[key].t = "str"
    THEN payload.v[key]
    ELSE Undefined

Call(control, arg) == [control |-> control, arg |-> arg]

Failed(actionType, error) ==
    [result |-> [success |-> FALSE, actionType |-> actionType, error |-> <<error>>],
     calls |-> <<>>]

Succeeded(actionType, calls) ==
    [result |-> [success |-> TRUE, actionType |-> actionType, error |-> <<>>],
     calls |-> calls]

\* variant: without a string filterValue the filter is reset to all
ApplyFilterWith_DefaultAll(filterValue) ==
    Succeeded("APPLY_FILTER",
              <<Call("setStatusFilter",
                     IF filterValue = Undefined THEN <<"all">> ELSE filterValue.v)>>)

ApplyFilterWith(filterValue) ==
    IF filterValue = Undefined
    THEN Failed("APPLY_FILTER",
                "APPLY_FILTER requires a filterValue string in the action payload.")
    ELSE Succeeded("APPLY_FILTER", <<Call("setStatusFilter", filterValue.v)>>)

handleApplyFilter(payload) == ApplyFilterWith(extractString(payload, "filterValue"))

handleExportReport == Succeeded("EXPORT_REPORT", <<>>)

\* the injected callback when provided, else the metrics store's setter
HighlightControl(metricControls) ==
    IF metricControls.highlightMetric THEN "highlightMetric" ELSE "setHighlightedMetric"

\* variant: a key that is blank after trimming is highlighted as it is
HighlightWith_NoBlankCheck(rawKey, metricControls) ==
    IF rawKey = Undefined
    THEN Failed("HIGHLIGHT_METRIC",
                "HIGHLIGHT_METRIC requires a metricKey string in the action payload.")
    ELSE Succeeded("HIGHLIGHT_METRIC",
                   <<Call(HighlightControl(metricControls), trim(rawKey.v))>>)

HighlightWith(rawKey, metricControls) ==
    IF rawKey = Undefined
    THEN Failed("HIGHLIGHT_METRIC",
                "HIGHLIGHT_METRIC requires a metricKey string in the action payload.")
    ELSE IF Len(trim(rawKey.v)) = 0
    THEN Failed("HIGHLIGHT_METRIC", "HIGHLIGHT_METRIC metricKey must be a non-empty string.")
    ELSE Succeeded("HIGHLIGHT_METRIC",
                   <<Call(HighlightControl(metricControls), trim(rawKey.v))>>)

handleHighlightMetric(payload, metricControls) ==
    HighlightWith(extractString(payload, "metricKey"), metricControls)

\* variant: an action type outside the switch is reported as done
dispatchCopilotAction_DefaultSucceeds(action, metricControls) ==
    CASE action.actionType = "APPLY_FILTER" -> handleApplyFilter(action.payload)
      [] action.actionType = "EXPORT_REPORT" -> handleExportReport
      [] action.actionType = "HIGHLIGHT_METRIC" ->
            handleHighlightMetric(action.payload, metricControls)
      [] OTHER -> Succeeded(action.actionType, <<>>)

dispatchCopilotAction(action, metricControls) ==
    CASE action.actionType = "APPLY_FILTER" -> handleApplyFilter(action.payload)
      [] action.actionType = "EXPORT_REPORT" -> handleExportReport
      [] action.actionType = "HIGHLIGHT_METRIC" ->
            handleHighlightMetric(action.payload, metricControls)
      [] OTHER -> Failed(action.actionType, "Unknown action type")

----------------------------------------------------------------------------
(* The host of the dispatcher: CopilotMessage.tsx (safeSetStatusFilter),   *)
(* the table's status filter, the metrics store, and a highlight callback  *)
(* the host page may supply.                                               *)

VALID_STATUS_FILTERS == {<<"all">>, <<"active">>, <<"pending">>, <<"error">>}

\* variant: the host control takes any string
safeSetStatusFilter_NoWhitelist(statusFilter, value) == value

safeSetStatusFilter(statusFilter, value) ==
    IF value \in VALID_STATUS_FILTERS THEN value ELSE statusFilter

\* the host state after the control calls of one dispatch
AfterCalls(host, done) ==
    IF done.calls = <<>> THEN host
    ELSE IF done.calls[1].control = "setStatusFilter"
    THEN [host EXCEPT !.statusFilter = safeSetStatusFilter(@, done.calls[1].arg)]
    ELSE IF done.calls[1].control = "highlightMetric"
    THEN [host EXCEPT !.hostHighlight = done.calls[1].arg]
    ELSE [host EXCEPT !.highlightedMetric = done.calls[1].arg]

\* a control of the bundle that raises when it is called
ControlThrows(bundle, call) ==
    \/ call.control = "setStatusFilter" /\ bundle.tableControls.throws
    \/ call.control = "highlightMetric" /\ bundle.metricControls.throws

\* The handlers call a control as their last statement before the return and
\* catch nothing: when the control raises, the exception leaves
\* dispatchCopilotAction and no result record is returned.
Invoked(bundle, done) ==
    IF \E i \in DOMAIN done.calls : ControlThrows(bundle, done.calls[i])
    THEN [result |-> Null, calls |-> done.calls, thrown |-> TRUE, effective |-> FALSE]
    ELSE [result |-> done.result, calls |-> done.calls, thrown |-> FALSE,
          effective |-> TRUE]

Dispatched(out, action, done) ==
    [op |-> "dispatch", n |-> out.n + 1, action |-> action,
     result |-> done.result, calls |-> done.calls, thrown |-> done.thrown,
     host |-> IF done.effective THEN AfterCalls(out.host, done) ELSE out.host]

----------------------------------------------------------------------------
(* SpecDispatch: up to MaxDispatch actions dispatched one after another,   *)
(* each of any action type (declared or not) with any payload of a bounded *)
(* set, on a host that supplies a highlight callback or does not, and      *)
(* whose controls return normally or raise.                                *)

ActionTypes == {"APPLY_FILTER", "EXPORT_REPORT", "HIGHLIGHT_METRIC", "DELETE_ALL"}

Payloads ==
    {JObj([k \in {} |-> Null]),
     JObj([filterValue |-> JStr(<<"active">>)]),
     JObj([filterValue |-> JStr(<<"bogus">>)]),
     JObj([filterValue |-> JNum(5)]),
     JObj([metricKey |-> JStr(<<"revenue">>)]),
     JObj([metricKey |-> JStr(<<" ", "revenue", " ">>)]),
     JObj([metricKey |-> JStr(<<" ">>)]),
     JObj([metricKey |-> JNum(7)])}

DispatchActions == {[actionType |-> a, payload |-> p] : a \in ActionTypes, p \in Payloads}

NoAction == [actionType |-> "none", payload |-> Null]

\* the controls handed to the dispatcher: only a callback that exists can raise
Bundles ==
    {b \in [op : {"dispatch"},
            tableControls : [throws : BOOLEAN],
            metricControls : [highlightMetric : BOOLEAN, throws : BOOLEAN]] :
        b.metricControls.throws => b.metricControls.highlightMetric}

InitDispatch ==
    /\ SessionIdle
    /\ input \in Bundles
    /\ output = [op |-> "dispatch", n |-> 0, action |-> NoAction,
                 result |-> Null, calls |-> <<>>, thrown |-> FALSE,
                 host |-> [statusFilter |-> <<"all">>, hostHighlight |-> Null,
                           highlightedMetric |-> Null]]

\* handleActionClick: one suggested action is executed
Dispatch(action) ==
    /\ output.n < MaxDispatch
    /\ output' = Dispatched(output, action,
                            Invoked(input, dispatchCopilotAction(action, input.metricControls)))
    /\ UNCHANGED <<sessionVars, input>>

NextDispatch == \E action \in DispatchActions : Dispatch(action)

SpecDispatch == InitDispatch /\ [][NextDispatch]_vars

----------------------------------------------------------------------------
(* context-builder.ts, and the context CopilotPanel hands to CopilotInput. *)
(* A row is a function from its keys to its values; an array that may be   *)
(* undefined or null is a tagged value.                                    *)

MAX_TABLE_ROWS == 20

TABLE_SNAPSHOT_LIMIT == 10

SENSITIVE_FIELDS == {"email", "password", "token", "secret", "apiKey", "ssn", "creditCard"}

\* variant: the row is copied with all of its fields
stripSensitiveFields_KeepsAll(row) == row

stripSensitiveFields(row) == [key \in DOMAIN row \ SENSITIVE_FIELDS |-> row[key]]

\* rows.slice(0, n)
slice(rows, n) == SubSeq(rows, 1, IF Len(rows) < n THEN Len(rows) ELSE n)

Sanitized(sliced, truncated) ==
    [rows |-> [i \in 1..Len(sliced) |-> stripSensitiveFields(sliced[i])],
     truncated |-> truncated]

\* variant: the cap is applied but never reported
sanitizeTableSnapshot_NoFlag(rows) ==
    Sanitized(slice(rows, MAX_TABLE_ROWS), FALSE)

sanitizeTableSnapshot(rows) ==
    Sanitized(IF Len(rows) > MAX_TABLE_ROWS THEN slice(rows, MAX_TABLE_ROWS) ELSE rows,
              Len(rows) > MAX_TABLE_ROWS)

Context(params, table) ==
    [currentPage |-> params.currentPage,
     visibleMetrics |-> IF params.metricsSummary = Undefined THEN Null
                        ELSE params.metricsSummary,
     tableSnapshot |-> IF table = Null THEN Null ELSE JArr(table.rows),
     tableSnapshotTruncated |-> IF table = Null THEN FALSE ELSE table.truncated]

buildCopilotContext(params) ==
    Context(params,
            IF params.tableSnapshot # Undefined /\ Len(params.tableSnapshot.v) > 0
            THEN sanitizeTableSnapshot(params.tableSnapshot.v)
            ELSE Null)

\* CopilotPanel: the params built from the metrics and the visible rows
dashboardContext(metrics, filteredRows) ==
    [currentPage |-> "dashboard",
     metricsSummary |-> metrics,
     tableSnapshot |-> IF Len(filteredRows) > 0
                       THEN JArr(slice(filteredRows, TABLE_SNAPSHOT_LIMIT))
                       ELSE Undefined]

----------------------------------------------------------------------------
(* SpecContext: buildCopilotContext applied to params with 0 to MaxRows    *)
(* rows, and to the params CopilotPanel builds from 0 to MaxRows visible   *)
(* rows.  Rows carry their position as id, in ascending or descending      *)
(* order, and one of several sets of keys.                                 *)

RowKeys ==
    {{"id", "name"},
     {"id", "name", "email"},
     {"id", "Email", "profile"},
     {"id", "password", "token", "secret", "apiKey", "ssn", "creditCard"},
     {"email"}}

RowOf(id, keys) == [key \in keys |-> <<key, id>>]

RowsOf(n, keys, ascending) ==
    [i \in 1..n |-> RowOf(IF ascending THEN i ELSE n + 1 - i, keys)]

RowSeqs == {RowsOf(n, keys, asc) : n \in 0..MaxRows, keys \in RowKeys, asc \in BOOLEAN}

MetricsValues == {Undefined, [revenue |-> 48500]}

ContextInputs ==
    {[op |-> "buildCopilotContext",
      rows |-> rows,
      params |-> [currentPage |-> "dashboard", metricsSummary |-> mm,
                  tableSnapshot |-> IF given THEN JArr(rows) ELSE Undefined]] :
        rows \in RowSeqs, mm \in MetricsValues, given \in BOOLEAN}
    \cup
    {[op |-> "submitQuery", rows |-> rows, params |-> dashboardContext(mm, rows)] :
        rows \in RowSeqs, mm \in MetricsValues}

InitContext ==
    /\ SessionIdle
    /\ input \in ContextInputs
    /\ output = Idle

\* buildCopilotContext called with the params, directly or from submitQuery
BuildContext ==
    /\ output = Idle
    /\ output' = [op |-> input.op, context |-> buildCopilotContext(input.params)]
    /\ UNCHANGED <<sessionVars, input>>

NextContext == BuildContext

SpecContext == InitContext /\ [][NextContext]_vars

----------------------------------------------------------------------------
(* Properties *)

Last(q) == q[Len(q)]

RECURSIVE EncodeAll(_)
EncodeAll(events) ==
    IF events = <<>> THEN <<>> ELSE encodeLine(Head(events)) \o EncodeAll(Tail(events))

RECURSIVE TokenText(_)
TokenText(events) ==
    IF events = <<>> THEN <<>>
    ELSE (IF Head(events).type = "token" THEN Head(events).content ELSE <<>>)
         \o TokenText(Tail(events))

IsSuffix(q, whole) ==
    Len(q) <= Len(whole) /\ q = SubSeq(whole, Len(whole) - Len(q) + 1, Len(whole))

IsPrefix(q, whole) == Len(q) <= Len(whole) /\ q = SubSeq(whole, 1, Len(q))

DoneOnlyLast(events) ==
    \A i \in 1..Len(events) :
        /\ events[i].type \in {"token", "done"}
        /\ events[i].type = "done" => i = Len(events)

EndsWithDone(events) == events # <<>> /\ Last(events).type = "done"

InFlight(t) == turns[t].pc # "done"

\* the turn's response is a stream the client has not left yet
Streaming(t) == turns[t].status = 200 /\ InFlight(t)

HasMessage(id) == \E i \in DOMAIN messages : messages[i].id = id

ContentOf(id) == messages[CHOOSE i \in DOMAIN messages : messages[i].id = id].content

SummaryOf(payload) == payload.v.summary.v

\* C1: on every streamed response the events written are Token events followed
\* by exactly one Done event, which is written exactly when the stream is
\* closed: no Token after the Done, no second Done, no close without a Done.
C1_TokensThenOneDone ==
    \A t \in DOMAIN turns :
        Streaming(t) =>
            /\ DoneOnlyLast(turns[t].emitted)
            /\ IsSuffix(turns[t].wire, EncodeAll(turns[t].emitted))
            /\ (turns[t].srv = "closed") <=> EndsWithDone(turns[t].emitted)

C1_Witness ==
    \E t \in DOMAIN turns :
        /\ Streaming(t)
        /\ turns[t].srv = "closed"
        /\ turns[t].srvResult = "validated"
        /\ Len(turns[t].emitted) = 3
        /\ turns[t].emitted[1].type = "token"
        /\ turns[t].emitted[2].type = "token"

\* C2: when the provider stream raises during iteration, after any number of
\* Tokens, the server emits no further Token, emits exactly one Done carrying
\* the safe fallback, and closes the stream.
C2_ProviderErrorEndsWithFallback ==
    \A t \in DOMAIN turns :
        (Streaming(t) /\ turns[t].srvResult = "error") =>
            /\ turns[t].srv = "closed"
            /\ Len(turns[t].emitted) = turns[t].nDeltas + 1
            /\ DoneOnlyLast(turns[t].emitted)
            /\ Last(turns[t].emitted) = Done(FALLBACK_RESPONSE)
            /\ TokenText(turns[t].emitted) = turns[t].fullContent

C2_Witness ==
    \E t \in DOMAIN turns :
        /\ Streaming(t)
        /\ turns[t].srvResult = "error"
        /\ Len(turns[t].emitted) >= 2
        /\ JSONparse(turns[t].fullContent).ok

\* C3: at most one submission is in flight in every reachable state of the
\* session, whatever the interleaving of submits, stream events, turn
\* completions and session resets.
C3_AtMostOneInFlight ==
    Cardinality({t \in DOMAIN turns : InFlight(t)}) <= 1

\* C4: a turn that ends after a configuration failure, a provider failure
\* before or during the stream, or non-conforming model text, ends with the
\* safe fallback cached as the conversation's last response.
C4_FailedTurnCachesFallback ==
    [][\A t \in DOMAIN turns :
         ( /\ InFlight(t)
           /\ turns'[t].pc = "done"
           /\ turns'[t].exit \in {"notOk", "eof"}
           /\ turns[t].srvResult \in
                 {"config", "rate", "api", "unknown", "invalid", "empty", "error"} )
         => lastResponse' = FALLBACK_RESPONSE]_vars

\* C5: while a turn is being read, the events applied to the conversation are
\* a prefix of the events the server produced, in the same order, a Done is
\* the last of them, and until the Done the turn's assistant message holds
\* the concatenation of the Token contents applied so far.
C5_TokensAppliedInOrder ==
    \A t \in DOMAIN turns :
        turns[t].pc = "reading" =>
            /\ IsPrefix(turns[t].applied, turns[t].emitted)
            /\ DoneOnlyLast(turns[t].applied)
            /\ (HasMessage(turns[t].messageId) /\ ~EndsWithDone(turns[t].applied)) =>
                   ContentOf(turns[t].messageId) =
                       TokenText(SubSeq(turns[t].emitted, 1, Len(turns[t].applied)))

C5_Witness ==
    \E t \in DOMAIN turns :
        /\ turns[t].pc = "reading"
        /\ Len(turns[t].applied) = 2
        /\ ~EndsWithDone(turns[t].applied)
        /\ HasMessage(turns[t].messageId)
        /\ ContentOf(turns[t].messageId) = <<"x", "{", "A", "}">>

\* C6: the step that applies a turn's Done event caches the Done payload as the
\* last response and sets the turn's assistant message to the payload's
\* summary, and the message still holds that summary (not the streamed token
\* text) once the stream has been read to its end.
C6_DoneStep ==
    \A t \in DOMAIN turns :
        ( /\ Len(turns'[t].applied) > Len(turns[t].applied)
          /\ EndsWithDone(turns'[t].applied) )
        => /\ lastResponse' = Last(turns'[t].applied).payload
           /\ \A i \in DOMAIN messages' :
                 messages'[i].id = turns[t].messageId =>
                     messages'[i].content = SummaryOf(Last(turns'[t].applied).payload)

C6_FinalContent ==
    \A t \in DOMAIN turns :
        ( /\ turns[t].exit = "eof"
          /\ EndsWithDone(turns[t].applied)
          /\ HasMessage(turns[t].messageId) )
        => ContentOf(turns[t].messageId) = SummaryOf(Last(turns[t].applied).payload)

C6_DoneReplacesTokens == [][C6_DoneStep]_vars /\ []C6_FinalContent

C6_Witness ==
    \E t \in DOMAIN turns :
        /\ turns[t].exit = "eof"
        /\ Len(turns[t].applied) = 3
        /\ Last(turns[t].applied).payload = BodyValue("A")
        /\ HasMessage(turns[t].messageId)
        /\ ContentOf(turns[t].messageId) = <<"S1">>
        /\ lastResponse = BodyValue("A")

\* C7: whenever a response is cached and the history holds an assistant
\* message, the cached response is the Done payload applied by the turn that
\* owns the most recent assistant message (stated for the states with at most
\* one submission in flight, where no turn of an earlier session interferes).
C7_LastResponseOfLatestTurn ==
    LET assistants == {i \in DOMAIN messages : messages[i].role = "assistant"} IN
    (lastResponse # Null /\ assistants # {} /\ C3_AtMostOneInFlight) =>
        \E t \in DOMAIN turns :
            /\ turns[t].messageId = messages[SetMax(assistants)].id
            /\ EndsWithDone(turns[t].applied)
            /\ Last(turns[t].applied).payload = lastResponse

\* C8: a step that empties a non-empty history, or that sets a cached response
\* back to null, resets all three of history, cached response and in-flight
\* flag at once.
C8_ResetIsAtomic ==
    [][( \/ (messages # <<>> /\ messages' = <<>>)
         \/ (lastResponse # Null /\ lastResponse' = Null) )
       => (messages' = <<>> /\ lastResponse' = Null /\ isLoading' = FALSE)]_vars

C8_Witness ==
    /\ messages = <<>>
    /\ lastResponse = Null
    /\ isLoading = FALSE
    /\ \E t \in DOMAIN turns : InFlight(t) /\ EndsWithDone(turns[t].applied)

\* C9: when the provider stream ends with accumulated text that is empty, or
\* that neither parses directly to a conforming object nor is repaired to one,
\* the Done payload is the constant fallback: the unavailable summary, no
\* insights, no suggested actions, exactly one warning, confidence 0.
Conforms(text) == JSONparse(text).ok /\ CopilotResponseSchema(JSONparse(text).value)

IsFallbackShape(payload) ==
    /\ SummaryOf(payload) = <<"Unable to analyze dashboard data at this time.">>
    /\ payload.v.insights.v = <<>>
    /\ payload.v.suggestedActions.v = <<>>
    /\ Len(payload.v.warnings.v) = 1
    /\ payload.v.confidenceScore.v = 0

C9_UnrepairableTextYieldsFallback ==
    \A t \in DOMAIN turns :
        ( /\ Streaming(t)
          /\ turns[t].srvResult \in {"validated", "invalid", "empty"}
          /\ \/ turns[t].fullContent = <<>>
             \/ (~Conforms(turns[t].fullContent)
                 /\ ~Conforms(extractJson(turns[t].fullContent))) )
        => /\ EndsWithDone(turns[t].emitted)
           /\ Last(turns[t].emitted).payload = FALLBACK_RESPONSE
           /\ IsFallbackShape(Last(turns[t].emitted).payload)

C9_Witness ==
    \E t \in DOMAIN turns :
        /\ Streaming(t)
        /\ turns[t].srvResult = "invalid"
        /\ turns[t].fullContent = <<"{", "A", "}", "{", "A", "}">>
        /\ Last(turns[t].emitted).payload = FALLBACK_RESPONSE

\* C10: for a text that is a conforming object as JSON (whitespace around its
\* tokens allowed), parseAndValidate returns the value the text denotes, from
\* the direct parse, without running the repair step.
C10_ConformingTextParsesDirectly ==
    presult.ran =>
        \A b \in ConformingBodies :
            NoWs(raw) = Stringify(b) =>
                /\ presult.result = BodyValue(b)
                /\ ~presult.repairRan

C10_Witness ==
    /\ presult.ran
    /\ raw = <<"\n", "{", "B", "}", "\n">>
    /\ presult.result = BodyValue("B")
    /\ ~presult.repairRan

\* C11: for a text that is one fenced block (an opening fence, optionally
\* tagged json, the object, a closing fence, each on its own line or not)
\* around a conforming object, parseAndValidate returns the value the object
\* alone denotes, and it is the repair pass that produces it.
FenceOpeners == {<<"fence">>, <<"fence", "json">>, <<"fence", "\n">>, <<"fence", "json", "\n">>}

FenceClosers == {<<"fence">>, <<"\n", "fence">>}

C11_FencedObjectIsRepaired ==
    presult.ran =>
        \A b \in ConformingBodies, open \in FenceOpeners, close \in FenceClosers :
            raw = open \o Stringify(b) \o close =>
                /\ presult.result = BodyValue(b)
                /\ presult.result = parseAndValidate(Stringify(b))
                /\ presult.repairRan

C11_Witness ==
    /\ presult.ran
    /\ raw = <<"fence", "json", "{", "B", "}", "\n", "fence">>
    /\ presult.result = BodyValue("B")
    /\ presult.repairRan

\* C12: safeParse fails for every candidate whose confidenceScore is below 0.0
\* or above 1.0, whatever its other fields, and succeeds for a candidate whose
\* confidenceScore is exactly 0.0 or exactly 1.0 and whose other fields conform.
OtherFieldsConform(v) ==
    /\ ZString(v.v.summary)
    /\ InsightArray(v.v.insights)
    /\ SuggestedActionArray(v.v.suggestedActions)
    /\ StringArray(v.v.warnings)

C12_ConfidenceInUnitInterval ==
    output.op = "safeParse" =>
        LET conf == input.value.v.confidenceScore.v IN
        /\ (conf < 0 \/ conf > Scale) => ~output.success
        /\ (conf \in {0, Scale} /\ OtherFieldsConform(input.value)) => output.success

C12_Witness ==
    /\ output.op = "safeParse"
    /\ input.value.v.confidenceScore.v = Scale + 1
    /\ OtherFieldsConform(input.value)
    /\ ~output.success

\* C13: when the text the provider streamed denotes an object with a
\* suggested action whose actionType is outside APPLY_FILTER, EXPORT_REPORT,
\* HIGHLIGHT_METRIC, the turn's Done carries the fallback; and no Done written
\* by the server and no cached last response holds such an action.
DeclaredActionTypes == {<<"APPLY_FILTER">>, <<"EXPORT_REPORT">>, <<"HIGHLIGHT_METRIC">>}

OnlyDeclaredActions(payload) ==
    \A i \in DOMAIN payload.v.suggestedActions.v :
        payload.v.suggestedActions.v[i].v.actionType.v \in DeclaredActionTypes

DenotesUndeclaredAction(text) ==
    /\ JSONparse(text).ok
    /\ "suggestedActions" \in DOMAIN JSONparse(text).value.v
    /\ ~OnlyDeclaredActions(JSONparse(text).value)

C13_ActionTypeVocabularyIsClosed ==
    /\ lastResponse # Null => OnlyDeclaredActions(lastResponse)
    /\ \A t \in DOMAIN turns :
          /\ \A i \in DOMAIN turns[t].emitted :
                turns[t].emitted[i].type = "done" =>
                    OnlyDeclaredActions(turns[t].emitted[i].payload)
          /\ ( /\ Streaming(t)
               /\ turns[t].srvResult \in {"validated", "invalid", "empty"}
               /\ \/ DenotesUndeclaredAction(turns[t].fullContent)
                  \/ DenotesUndeclaredAction(extractJson(turns[t].fullContent)) )
             => Last(turns[t].emitted) = Done(FALLBACK_RESPONSE)

C13_Witness ==
    \E t \in DOMAIN turns :
        /\ Streaming(t)
        /\ turns[t].srvResult = "invalid"
        /\ turns[t].fullContent = <<"x", "{", "T", "}">>
        /\ EndsWithDone(turns[t].applied)
        /\ lastResponse = FALLBACK_RESPONSE

\* C14: when OPENAI_API_KEY or LLM_MODEL is absent, every request, whatever
\* its body, is answered with status 503 and the safe fallback as body, and
\* the provider is not called.
C14_MissingConfigShortCircuits ==
    (output.op = "POST" /\ (~env.key \/ ~env.model)) =>
        /\ ~output.reply.called
        /\ output.reply.status = 503
        /\ output.reply.body = FALLBACK_RESPONSE

C14_Witness ==
    /\ output.op = "POST"
    /\ env.key
    /\ ~env.model
    /\ input.request.parseable
    /\ RequestBodySchema(input.request.value)
    /\ output.reply.status = 503
    /\ ~output.reply.called

\* C15: every request whose body is not parseable JSON or does not satisfy
\* {query: non-empty string, context: map} is answered with a 4xx status and
\* leads to no provider call, whatever the environment holds.
BadBody(request) == ~request.parseable \/ ~RequestBodySchema(request.value)

C15_BadBodyIsClientError ==
    (output.op = "POST" /\ BadBody(input.request)) =>
        /\ output.reply.status \in 400..499
        /\ ~output.reply.called

InOneChunk(bytes) ==
    LET lines == SplitLines(bytes) IN
    [st |-> Caught(ApplyLines([accumulated |-> <<>>, messages |-> FrameMessages,
                               lastResponse |-> Null, applied |-> <<>>,
                               thrown |-> FALSE],
                              2, SubSeq(lines, 1, Len(lines) - 1)), 2),
     rest |-> lines[Len(lines)]]

Newlines(bytes) == Cardinality({i \in DOMAIN bytes : bytes[i] = NL})

C17_FramingIgnoresChunkBoundaries ==
    (input.op = "consumeStream") =>
        LET turn == turns[1]
            read == IF turn.pc = "done" THEN input.bytes
                    ELSE SubSeq(input.bytes, 1, Len(input.bytes) - Len(turn.wire))
            one == InOneChunk(read)
        IN /\ turn.applied = one.st.applied
           /\ messages = one.st.messages
           /\ lastResponse = one.st.lastResponse
           /\ Len(turn.applied) <= Newlines(read)
           /\ turn.pc = "reading" =>
                 (turn.buffer = one.rest /\ turn.accumulated = one.st.accumulated)

\* both halves of a token line have been read, its newline has not: nothing
\* is applied and the halves are retained
C17_Witness ==
    /\ input.op = "consumeStream"
    /\ input.bytes = <<FirstHalf(Token(<<"x">>)), SecondHalf(Token(<<"x">>)), NL,
                       JsonText(Done(BodyValue("A"))), NL>>
    /\ turns[1].pc = "reading"
    /\ turns[1].buffer = <<FirstHalf(Token(<<"x">>)), SecondHalf(Token(<<"x">>))>>
    /\ turns[1].applied = <<>>
    /\ Len(turns[1].wire) = 3

\* C18: dispatching an action whose actionType is not APPLY_FILTER,
\* EXPORT_REPORT or HIGHLIGHT_METRIC returns success false with a non-empty
\* error and calls no control: no setStatusFilter, no highlight.
DispatchedOne == output.op = "dispatch" /\ output.n > 0

C18_UnknownActionTypeFails ==
    ( /\ DispatchedOne
      /\ output.action.actionType \notin {"APPLY_FILTER", "EXPORT_REPORT", "HIGHLIGHT_METRIC"} )
    => /\ output.result.success = FALSE
       /\ output.result.error # <<>>
       /\ output.calls = <<>>

C18_Witness ==
    /\ DispatchedOne
    /\ output.action.actionType = "DELETE_ALL"
    /\ output.action.payload = JObj([filterValue |-> JStr(<<"active">>)])
    /\ output.result.success = FALSE
    /\ output.calls = <<>>

\* C19: dispatching APPLY_FILTER with a payload that has no filterValue, or
\* whose filterValue is not a string, returns success false with actionType
\* APPLY_FILTER and a non-empty error, and does not call setStatusFilter.
NoStringAt(payload, key) == key \notin DOMAIN payload.v \/ payload.v[key].t # "str"

C19_ApplyFilterNeedsStringValue ==
    ( /\ DispatchedOne
      /\ output.action.actionType = "APPLY_FILTER"
      /\ NoStringAt(output.action.payload, "filterValue") )
    => /\ output.result.success = FALSE
       /\ output.result.actionType = "APPLY_FILTER"
       /\ output.result.error # <<>>
       /\ \A i \in DOMAIN output.calls : output.calls[i].control # "setStatusFilter"

C19_Witness ==
    /\ DispatchedOne
    /\ output.action.actionType = "APPLY_FILTER"
    /\ output.action.payload = JObj([filterValue |-> JNum(5)])
    /\ output.result.success = FALSE
    /\ output.calls = <<>>

\* C20: dispatching HIGHLIGHT_METRIC with a metricKey that is a string and not
\* empty after trimming, on a host that supplied no highlightMetric control,
\* returns success false with a non-empty error and highlights nothing: no
\* control is called, the metrics store included.
C20_HighlightNeedsHostControl ==
    ( /\ DispatchedOne
      /\ output.action.actionType = "HIGHLIGHT_METRIC"
      /\ ~NoStringAt(output.action.payload, "metricKey")
      /\ trim(output.action.payload.v.metricKey.v) # <<>>
      /\ ~input.metricControls.highlightMetric )
    => /\ output.result.success = FALSE
       /\ output.result.error # <<>>
       /\ output.calls = <<>>

\* C21: dispatching HIGHLIGHT_METRIC with a metricKey that is missing, is not
\* a string, or is empty once trimmed returns success false with a non-empty
\* error and calls no highlight control, neither the host's callback nor the
\* metrics store's setter: the dispatch makes no control call at all.
BadMetricKey(payload) ==
    \/ NoStringAt(payload, "metricKey")
    \/ trim(payload.v.metricKey.v) = <<>>

C21_HighlightNeedsMetricKey ==
    ( /\ DispatchedOne
      /\ output.action.actionType = "HIGHLIGHT_METRIC"
      /\ BadMetricKey(output.action.payload) )
    => /\ output.result.success = FALSE
       /\ output.result.actionType = "HIGHLIGHT_METRIC"
       /\ output.result.error # <<>>
       /\ output.calls = <<>>

C21_Witness ==
    /\ DispatchedOne
    /\ output.action.actionType = "HIGHLIGHT_METRIC"
    /\ output.action.payload = JObj([metricKey |-> JStr(<<" ">>)])
    /\ input.metricControls.highlightMetric
    /\ output.result.success = FALSE
    /\ output.calls = <<>>

\* C22: whatever the action and whatever the controls of the host do when
\* called, raising included, dispatchCopilotAction raises nothing and returns
\* a result record whose actionType is the dispatched action's actionType.
C22_DispatchNeverThrows ==
    DispatchedOne =>
        /\ ~output.thrown
        /\ output.result # Null
        /\ output.result.actionType = output.action.actionType

\* C30: after any sequence of dispatches the table's status filter is one of
\* all, active, pending, error; and a dispatch of APPLY_FILTER whose
\* filterValue is a string calls the host's setStatusFilter exactly once, with
\* that string, and calls nothing else: the filter becomes the value when the
\* whitelist holds it and is left as it was when it does not.
C30_FilterInWhitelist == output.op = "dispatch" => output.host.statusFilter \in VALID_STATUS_FILTERS

C30_ApplyFilterStep ==
    ( /\ output.op = "dispatch"
      /\ output'.n = output.n + 1
      /\ ~input.tableControls.throws
      /\ output'.action.actionType = "APPLY_FILTER"
      /\ ~NoStringAt(output'.action.payload, "filterValue") )
    => LET value == output'.action.payload.v.filterValue.v IN
       /\ output'.calls = <<Call("setStatusFilter", value)>>
       /\ output'.result.success
       /\ output'.host.statusFilter =
             IF value \in VALID_STATUS_FILTERS THEN value ELSE output.host.statusFilter
       /\ output'.host.highlightedMetric = output.host.highlightedMetric
       /\ output'.host.hostHighlight = output.host.hostHighlight

C30_StatusFilterStaysValid == []C30_FilterInWhitelist /\ [][C30_ApplyFilterStep]_vars

\* the filter was set to active, then a dispatch passed a value outside the
\* whitelist to the control and the filter stayed active
C30_Witness ==
    /\ output.op = "dispatch"
    /\ output.n = 2
    /\ ~input.tableControls.throws
    /\ output.action.actionType = "APPLY_FILTER"
    /\ output.calls = <<Call("setStatusFilter", <<"bogus">>)>>
    /\ output.host.statusFilter = <<"active">>

\* C23: buildCopilotContext given more than 20 rows returns 20 rows, the i-th
\* of them made from the i-th row given, with tableSnapshotTruncated true;
\* given 1 to 20 rows it returns as many rows, the i-th made from the i-th
\* given, with tableSnapshotTruncated false.
MadeFrom(cleaned, row) ==
    /\ DOMAIN cleaned \subseteq DOMAIN row
    /\ \A key \in DOMAIN cleaned : cleaned[key] = row[key]

FirstRowsInOrder(kept, rows, n) ==
    /\ Len(kept) = n
    /\ \A i \in 1..n : MadeFrom(kept[i], rows[i])

C23_SnapshotCappedAndFlagged ==
    (output.op = "buildCopilotContext" /\ input.params.tableSnapshot # Undefined) =>
        LET rows == input.params.tableSnapshot.v
            context == output.context
        IN /\ Len(rows) > 20 =>
                 /\ context.tableSnapshot # Null
                 /\ FirstRowsInOrder(context.tableSnapshot.v, rows, 20)
                 /\ context.tableSnapshotTruncated = TRUE
           /\ Len(rows) \in 1..20 =>
                 /\ context.tableSnapshot # Null
                 /\ FirstRowsInOrder(context.tableSnapshot.v, rows, Len(rows))
                 /\ context.tableSnapshotTruncated = FALSE

C23_Witness ==
    /\ output.op = "buildCopilotContext"
    /\ input.params.tableSnapshot = JArr(RowsOf(21, {"id", "name"}, FALSE))
    /\ Len(output.context.tableSnapshot.v) = 20
    /\ output.context.tableSnapshot.v[1].id = <<"id", 21>>
    /\ output.context.tableSnapshot.v[20].id = <<"id", 2>>
    /\ output.context.tableSnapshotTruncated

\* C24: every row of the context's snapshot holds exactly the fields of the
\* row it was made from whose key is not email, password, token, secret,
\* apiKey, ssn or creditCard, each with its value, so no row holds a field
\* with one of those keys; and building the context leaves the params, rows
\* included, as they were.
Denylist == {"email", "password", "token", "secret", "apiKey", "ssn", "creditCard"}

C24_RowsAreStripped ==
    (output.op \in {"buildCopilotContext", "submitQuery"}
        /\ output.context.tableSnapshot # Null) =>
        LET rows == input.params.tableSnapshot.v
            kept == output.context.tableSnapshot.v
        IN \A i \in DOMAIN kept :
              /\ DOMAIN kept[i] \cap Denylist = {}
              /\ DOMAIN kept[i] = DOMAIN rows[i] \ Denylist
              /\ \A key \in DOMAIN kept[i] : kept[i][key] = rows[i][key]

C24_SensitiveFieldsNeverSent == []C24_RowsAreStripped /\ [][input' = input]_vars

C24_Witness ==
    /\ output.op = "buildCopilotContext"
    /\ input.params.tableSnapshot = JArr(RowsOf(2, {"id", "name", "email"}, TRUE))
    /\ output.context.tableSnapshot = JArr(RowsOf(2, {"id", "name"}, TRUE))

\* C26: whenever the snapshot in the context sent with a query holds fewer
\* rows than the dashboard shows (its filtered rows), that context has
\* tableSnapshotTruncated true.
SnapshotSize(context) ==
    IF context.tableSnapshot = Null THEN 0 ELSE Len(context.tableSnapshot.v)

C26_TruncationIsFlagged ==
    (output.op = "submitQuery" /\ SnapshotSize(output.context) < Len(input.rows)) =>
        output.context.tableSnapshotTruncated = TRUE

\* C25: when the client has read a whole response, the turn has not been
\* aborted and the events applied, the history and the cached response are
\* those of the response's well-formed lines alone, in order: a line that is
\* blank or is not a well-formed stream event changed nothing and stopped
\* nothing.
IsStreamEvent(event) ==
    \/ event.type = "token"
    \/ event.type = "done" /\ event.payload \notin {Null, Undefined}

WellFormedLine(line) == IsStreamEvent(tryParseStreamEvent(line))

CompleteLines(bytes) == SubSeq(SplitLines(bytes), 1, Len(SplitLines(bytes)) - 1)

OnlyWellFormed(bytes) ==
    ApplyLines([accumulated |-> <<>>, messages |-> FrameMessages,
                lastResponse |-> Null, applied |-> <<>>, thrown |-> FALSE],
               2, SelectSeq(CompleteLines(bytes), WellFormedLine))

C25_MalformedLinesAreSkipped ==
    (input.op = "consumeStream" /\ turns[1].pc = "done") =>
        /\ turns[1].exit = "eof"
        /\ turns[1].applied = OnlyWellFormed(input.bytes).applied
        /\ messages = OnlyWellFormed(input.bytes).messages
        /\ lastResponse = OnlyWellFormed(input.bytes).lastResponse

\* C27: a submit attempt whose text is empty once trimmed, or made while a
\* submission is in flight, changes neither the history, the cached response
\* nor the in-flight flag and starts no request; any other attempt appends to
\* the history one user message holding the trimmed text and then one
\* assistant message with empty content, and nothing else; and no request is
\* ever started while a submission is in flight.
C27_Rejected(value) == Len(trim(value)) = 0 \/ isLoading

C27_SubmitStep ==
    /\ \A value \in InputValues : handleSubmit(value) =>
          IF C27_Rejected(value)
          THEN /\ messages' = messages
               /\ lastResponse' = lastResponse
               /\ isLoading' = isLoading
               /\ turns' = turns
          ELSE /\ Len(messages') = Len(messages) + 2
               /\ SubSeq(messages', 1, Len(messages)) = messages
               /\ messages'[Len(messages) + 1].role = "user"
               /\ messages'[Len(messages) + 1].content = trim(value)
               /\ messages'[Len(messages) + 2].role = "assistant"
               /\ messages'[Len(messages) + 2].content = <<>>
               /\ Len(turns') = Len(turns) + 1
    /\ Len(turns') # Len(turns) => ~isLoading

C27_SubmitFrame == [][C27_SubmitStep]_vars

\* the text " q " was accepted: the history holds the user's "q" and an empty
\* assistant message, and a further attempt would now be rejected
C27_Witness ==
    /\ Len(turns) = 1
    /\ turns[1].pc = "fetching"
    /\ isLoading
    /\ messages = <<Message(1, "user", <<"q">>), Message(2, "assistant", <<>>)>>

\* C28: whenever the in-flight flag is true it is eventually false again, and
\* every turn that has begun eventually ends with the flag false, whichever
\* way it ends: end of stream, response not ok, rejected fetch, read error,
\* or an exception while applying an event.
C28_LoadingIsReleased ==
    /\ isLoading ~> ~isLoading
    /\ \A t \in 1..MaxLiveTurns :
          (Started(t) /\ turns[t].pc # "done")
             ~> (Started(t) /\ turns[t].pc = "done" /\ ~isLoading)

\* a turn ended by an exception thrown while applying an event, flag released
C28_Witness ==
    /\ Started(1)
    /\ turns[1].pc = "done"
    /\ turns[1].exit = "applyError"
    /\ ~isLoading

\* C29: once the history has been reset while a turn was in flight (the
\* turn has not ended and its assistant message is gone), no later step of
\* that turn changes the history, the cached response or the in-flight flag.
PreReset(t) == turns[t].pc # "done" /\ ~HasMessage(turns[t].messageId)

C29_StaleStep ==
    \A t \in DOMAIN turns :
        (PreReset(t) /\ turns'[t] # turns[t]) =>
            /\ messages' = messages
            /\ lastResponse' = lastResponse
            /\ isLoading' = isLoading

C29_StaleTurnIsInert == [][C29_StaleStep]_vars

====
